---- MODULE Spec2Model ----
(***************************************************************************)
(* GitHubProvider (packages/cli/src/providers/github.ts): fork-aware       *)
(* pull-request resolution.  Every text value is a sequence of tokens: a   *)
(* repository full name or a URL is its sequence of "/"-separated          *)
(* segments, an error message its sequence of words, a command output its  *)
(* sequence of tokens including white space.  An optional value is a       *)
(* sequence of length at most one.  Each facade operation is an async      *)
(* function: it runs from one `await $...` to the next, so there is one    *)
(* action per operation entry and one per awaited remote call.             *)
(*                                                                         *)
(* The `git ai-commit` command (packages/cli/src/cli/ai-commit) is a       *)
(* second entry point of the same package: its main() is one more          *)
(* operation, and what it awaits (prompts, the AI executor, the JIRA       *)
(* lookup, git) is logged in executedCommands like the provider's calls.   *)
(***************************************************************************)
EXTENDS Integers, Sequences, FiniteSets, TLC

VARIABLES
  op,                \* the facade operation that was called ("none" before)
  arg,               \* getPRDetails' prNumberOrUrl, Null when omitted
  pc,                \* the await the operation is suspended at
  executedCommands,  \* every command handed to `$`, in order
  replies,           \* what each of them resolved or rejected with
  branchName,        \* findOpenPRForCurrentBranch's local
  repoContext,       \* the GitHubRepoContext once loaded
  searchTargets,     \* the search plan once computed
  idx,               \* position of the for-of loop in searchTargets
  parsedPR,          \* getPRDetails' parsedPR in URL mode
  currentBranchPR,   \* the FindOpenPRResult once resolution returned
  result,            \* how the operation settled
  files,             \* the files the operation has left in the directory
  worktree,          \* git's view of the directory: staged / unstaged work
  commits,           \* the messages of the commits created
  jiraOption,        \* ai-commit's options.jira
  commitType,        \* ai-commit's selected commit type
  commitMessages,    \* the messages the AI suggested
  commitMessage,     \* createCommit's argument
  jiraContext,       \* resolveJiraContext's key, source and browseUrl
  inner              \* the method getCurrentBranchPR is awaiting

vars == <<op, arg, pc, executedCommands, replies, branchName, repoContext,
          searchTargets, idx, parsedPR, currentBranchPR, result, files,
          worktree, commits, jiraOption, commitType, commitMessages,
          commitMessage, jiraContext, inner>>

\* The locals of PR resolution, of the file-passing operations, and of
\* the ai-commit command.
lookup == <<branchName, repoContext, searchTargets, idx, parsedPR,
            currentBranchPR, inner>>

commitFlow == <<worktree, commits, jiraOption, commitType, commitMessages,
                commitMessage, jiraContext>>

\* Longest pull-request list a `gh pr list` reply carries in the model.
MaxList == 2

Null == <<>>

Some(x) == <<x>>

----------------------------------------------------------------------------
(* Text helpers *)

\* String.prototype.toLowerCase on one token.
LowerToken(t) ==
  CASE t = "Alice" -> "alice"
    [] t = "ALICE" -> "alice"
    [] t = "No" -> "no"
    [] t = "Pull" -> "pull"
    [] t = "Requests" -> "requests"
    [] t = "Found" -> "found"
    [] t = "OPEN" -> "open"
    [] t = "CLOSED" -> "closed"
    [] t = "MERGED" -> "merged"
    [] OTHER -> t

toLowerCase(s) == [i \in 1..Len(s) |-> LowerToken(s[i])]

\* String.prototype.includes: sub occurs as a contiguous run of s.
includes(s, sub) ==
  \E i \in 0..(Len(s) - Len(sub)) :
    \A j \in 1..Len(sub) : s[i + j] = sub[j]

Whitespace == {" ", "\n"}

RECURSIVE TrimStart(_)
TrimStart(s) ==
  IF s # <<>> /\ Head(s) \in Whitespace THEN TrimStart(Tail(s)) ELSE s

RECURSIVE TrimEnd(_)
TrimEnd(s) ==
  IF s # <<>> /\ s[Len(s)] \in Whitespace
  THEN TrimEnd(SubSeq(s, 1, Len(s) - 1))
  ELSE s

\* String.prototype.trim.
trim(s) == TrimEnd(TrimStart(s))

\* Array.prototype.join with ", " between the full names.
RECURSIVE JoinNames(_)
JoinNames(names) ==
  IF names = <<>> THEN <<>>
  ELSE IF Len(names) = 1 THEN Head(names)
  ELSE Head(names) \o <<", ">> \o JoinNames(Tail(names))

Digits == {"1", "2", "3", "4", "5", "6", "42", "77", "123"}

----------------------------------------------------------------------------
(* Errors *)

Err(name, message) == [name |-> name, message |-> message]

NotFoundNeedle == <<"no", "pull", "requests", "found">>

\* Failures the hosting CLI can report on a remote call.
RemoteErrors ==
  { Err("Error", <<"no", "pull", "requests", "found", "for", "branch">>),
    Err("Error", <<"GraphQL:", "No", "Pull", "Requests", "Found">>),
    Err("Error", <<"gh", "auth", "failed">>),
    Err("Error", <<"HTTP", "403:", "rate", "limit", "exceeded">>) }

\* What JSON.parse throws on a malformed stdout.
JsonSyntaxError == Err("SyntaxError", <<"Unexpected", "token">>)

InvalidUrlError ==
  Err("Error", <<"Invalid", "GitHub", "PR", "URL", "format.">>)

OpenPRNotFoundError ==
  Err("Error", <<"No", "open", "Pull", "Request", "found", "for", "the",
                 "current", "branch.", "Please", "create", "one", "first.">>)

\* Slip: only the last repository that was tried is named.
NumberNotFoundError_LastOnly(id, targets) ==
  Err("Error",
      <<"No", "pull", "request", "found", "for">> \o id
        \o <<"in", "repositories:">> \o targets[Len(targets)].fullName)

NumberNotFoundError(id, targets) ==
  Err("Error",
      <<"No", "pull", "request", "found", "for">> \o id
        \o <<"in", "repositories:">>
        \o JoinNames([i \in 1..Len(targets) |-> targets[i].fullName]))

BranchNotFoundError(found) ==
  Err("Error",
      <<"No", "open", "pull", "request", "found", "for", "branch">>
        \o found.branchName \o <<"in", "repositories:">>
        \o JoinNames(found.searchedRepos))

----------------------------------------------------------------------------
(* Repository references, context and search plan *)

RepoRef(owner, name, fullName) ==
  [owner |-> owner, name |-> name, fullName |-> fullName]

NoRepo == RepoRef("", "", <<>>)

NoContext == [current |-> NoRepo, isFork |-> FALSE, parent |-> Null]

\* JavaScript truthiness of an optional string / of an optional full name.
TruthyStr(optStr) == optStr # Null /\ optStr[1] # ""

TruthyName(optSegs) == optSegs # Null /\ optSegs[1] # <<"">>

\* The `parent` part of getRepoContext: both payload shapes to a GitHubRepoRef.
parentOf(p) ==
  IF p = Null THEN Null
  ELSE IF TruthyName(p[1].nameWithOwner)
  THEN LET segs  == p[1].nameWithOwner[1]
           owner == IF Len(segs) >= 1 THEN segs[1] ELSE ""
           name  == IF Len(segs) >= 2 THEN segs[2] ELSE ""
       IN IF owner # "" /\ name # ""
          THEN Some(RepoRef(owner, name, segs))
          ELSE Null
  ELSE IF TruthyStr(p[1].login) /\ TruthyStr(p[1].name)
  THEN Some(RepoRef(p[1].login[1], p[1].name[1],
                    <<p[1].login[1], p[1].name[1]>>))
  ELSE Null

\* getRepoContext after JSON.parse: the payload to a GitHubRepoContext.
getRepoContext(repoData) ==
  [current |-> RepoRef(repoData.login, repoData.name, repoData.nameWithOwner),
   isFork  |-> repoData.isFork,
   parent  |-> parentOf(repoData.parent)]

\* Slip: the fork flag is not consulted.
getPRSearchTargets_IgnoringFork(ctx) ==
  IF ctx.parent # Null
  THEN <<ctx.parent[1], ctx.current>>
  ELSE <<ctx.current>>

\* Slip: the working-directory repository is searched first.
getPRSearchTargets_CurrentFirst(ctx) ==
  IF ctx.isFork /\ ctx.parent # Null
  THEN <<ctx.current, ctx.parent[1]>>
  ELSE <<ctx.current>>

getPRSearchTargets(ctx) ==
  IF ctx.isFork /\ ctx.parent # Null
  THEN <<ctx.parent[1], ctx.current>>
  ELSE <<ctx.current>>

----------------------------------------------------------------------------
(* URL parsing *)

\* A segment that ends with "https:" (the pattern has no start anchor).
EndsWithHttps(seg) == seg \in {"https:", "see-https:"}

\* String.prototype.startsWith('http') looks at the first segment only.
startsWithHttp(id) == id # <<>> /\ id[1] \in {"http:", "https:", "httpx"}

\* githubPattern matches with its "https:" at segment i.
MatchesAt(url, i) ==
  /\ i + 6 <= Len(url)
  /\ EndsWithHttps(url[i])
  /\ url[i + 1] = ""
  /\ url[i + 2] = "github.com"
  /\ url[i + 3] # ""
  /\ url[i + 4] # ""
  /\ url[i + 5] = "pull"
  /\ url[i + 6] \in Digits

\* Slip: the capture groups are read one position early.
parseGitHubPRUrl_ShiftedGroups(prUrl) ==
  LET starts == {i \in 1..Len(prUrl) : MatchesAt(prUrl, i)}
  IN IF starts = {} THEN Null
     ELSE LET i == CHOOSE k \in starts : \A m \in starts : k <= m
          IN Some([repo   |-> RepoRef(prUrl[i + 2], prUrl[i + 3],
                                      <<prUrl[i + 2], prUrl[i + 3]>>),
                   number |-> <<prUrl[i + 6]>>])

\* parseGitHubPRUrl: Null stands for the thrown invalid-format error.
parseGitHubPRUrl(prUrl) ==
  LET starts == {i \in 1..Len(prUrl) : MatchesAt(prUrl, i)}
  IN IF starts = {} THEN Null
     ELSE LET i == CHOOSE k \in starts : \A m \in starts : k <= m
          IN Some([repo   |-> RepoRef(prUrl[i + 3], prUrl[i + 4],
                                      <<prUrl[i + 3], prUrl[i + 4]>>),
                   number |-> <<prUrl[i + 6]>>])

----------------------------------------------------------------------------
(* Pull-request payloads *)

PRUrl(repo, n) ==
  <<"https:", "", "github.com">> \o repo.fullName \o <<"pull", ToString(n)>>

\* Slip: the logins are compared without lower-casing.
ownerMatches_CaseSensitive(pr, ctx) ==
  /\ pr.headRepositoryOwner # Null
  /\ pr.headRepositoryOwner[1] = ctx.current.owner

\* Slip: the owner pin is left out.
ownerMatches_Unpinned(pr, ctx) == TRUE

\* The owner pin of findOpenPRForCurrentBranch's `prs.find` callback.
ownerMatches(pr, ctx) ==
  /\ pr.headRepositoryOwner # Null
  /\ toLowerCase(<<pr.headRepositoryOwner[1]>>)
       = toLowerCase(<<ctx.current.owner>>)

isMatchingPR(pr, branch, ctx) ==
  pr.headRefName = branch /\ ownerMatches(pr, ctx)

\* Array.prototype.find: the first matching item, or Null.
findMatchingPR(prs, branch, ctx) ==
  LET hits == {i \in 1..Len(prs) : isMatchingPR(prs[i], branch, ctx)}
  IN IF hits = {} THEN Null
     ELSE Some(prs[CHOOSE k \in hits : \A m \in hits : k <= m])

\* Slip: with a match only the repository that had it is reported.
FindOpenPRResult_MatchedOnly(pr, branch, targets) ==
  [pr            |-> pr,
   branchName    |-> branch,
   searchedRepos |-> IF pr = Null
                     THEN [i \in 1..Len(targets) |-> targets[i].fullName]
                     ELSE <<pr[1].repo.fullName>>]

FindOpenPRResult(pr, branch, targets) ==
  [pr            |-> pr,
   branchName    |-> branch,
   searchedRepos |-> [i \in 1..Len(targets) |-> targets[i].fullName]]

NoResult == FindOpenPRResult(Null, <<>>, <<>>)

\* Slip: the reference is tied to the working-directory repository.
PRReference_Ambient(item, repo) ==
  [number |-> <<ToString(item.number)>>, url |-> item.url,
   repo |-> repoContext.current]

PRReference(item, repo) ==
  [number |-> <<ToString(item.number)>>, url |-> item.url, repo |-> repo]

\* Slip: owner and repo are taken from the working-directory repository.
toPRDetails_Ambient(prData, repo) ==
  [number     |-> <<ToString(prData.number)>>,
   title      |-> prData.title,
   url        |-> prData.url,
   baseBranch |-> prData.baseRefName,
   headBranch |-> prData.headRefName,
   owner      |-> repoContext.current.owner,
   repo       |-> repoContext.current.name,
   state      |-> LowerToken(prData.state),
   author     |-> prData.author]

toPRDetails(prData, repo) ==
  [number     |-> <<ToString(prData.number)>>,
   title      |-> prData.title,
   url        |-> prData.url,
   baseBranch |-> prData.baseRefName,
   headBranch |-> prData.headRefName,
   owner      |-> repo.owner,
   repo       |-> repo.name,
   state      |-> LowerToken(prData.state),
   author     |-> prData.author]

----------------------------------------------------------------------------
(* Inputs: identifiers given by the caller, replies given by git and gh *)

UpstreamUrl == <<"https:", "", "github.com", "org", "main-repo", "pull", "77">>

Identifiers ==
  { Null,
    <<"123">>,
    <<"abc">>,
    UpstreamUrl,
    UpstreamUrl \o <<"files">>,
    <<"http:", "", "evil.example", "see-https:", "", "github.com",
      "other", "lib", "pull", "5">>,
    <<"http:", "", "github.com", "org", "main-repo", "pull", "77">>,
    <<"https:", "", "github.com", "org", "main-repo", "pull", "abc">>,
    <<"https:", "", "gitlab.com", "group", "project", "-",
      "merge_requests", "123">> }

Ok(out) == [ok |-> TRUE, out |-> Some(out), err |-> Null]

BadJson == [ok |-> TRUE, out |-> Null, err |-> Null]

Fail(e) == [ok |-> FALSE, out |-> Null, err |-> Some(e)]

Failures == {Fail(e) : e \in RemoteErrors}

BranchReplies ==
  { Ok(<<"feat/fork-branch", "\n">>),
    Fail(Err("Error", <<"fatal:", "not", "a", "git", "repository">>)) }

ParentPayload(nameWithOwner, login, name) ==
  [nameWithOwner |-> nameWithOwner, login |-> login, name |-> name]

ParentPayloads ==
  { Null,
    Some(ParentPayload(Some(<<"org", "main-repo">>), Some("org"),
                       Some("main-repo"))),
    Some(ParentPayload(Some(<<"org", "main-repo">>), Null, Null)),
    Some(ParentPayload(Null, Some("org"), Some("main-repo"))),
    Some(ParentPayload(Some(<<"">>), Some("org"), Some("main-repo"))),
    Some(ParentPayload(Some(<<"org">>), Some("org"), Some("main-repo"))),
    Some(ParentPayload(Null, Some("org"), Null)) }

RepoPayloads ==
  { [nameWithOwner |-> <<login, "fork-repo">>, login |-> login,
     name |-> "fork-repo", isFork |-> f, parent |-> p] :
      login \in {"alice", "Alice"}, f \in BOOLEAN, p \in ParentPayloads }

RepoReplies == {Ok(d) : d \in RepoPayloads} \cup {BadJson} \cup Failures

\* What one listed pull request can look like: head branch and head owner.
ItemKinds(branch) ==
  { [ref |-> branch, owner |-> Some("alice")],
    [ref |-> branch, owner |-> Some("bob")],
    [ref |-> branch, owner |-> Null],
    [ref |-> <<"other-branch">>, owner |-> Some("alice")] }

PRListItem(kind, repo, n) ==
  [number |-> n, url |-> PRUrl(repo, n), headRefName |-> kind.ref,
   headRepositoryOwner |-> kind.owner]

PRLists(repo, branch) ==
  UNION { { [i \in 1..n |-> PRListItem(ks[i], repo, i)] :
              ks \in [1..n -> ItemKinds(branch)] } : n \in 0..MaxList }

ListReplies(repo, branch) ==
  {Ok(l) : l \in PRLists(repo, branch)} \cup {BadJson} \cup Failures

PRViewData(n, repo, st) ==
  [number |-> n, title |-> <<"Fix", "branch", "discovery">>,
   url |-> PRUrl(repo, n), baseRefName |-> <<"main">>,
   headRefName |-> <<"feat/fork-branch">>, state |-> st, author |-> "alice"]

ViewReplies(repo) ==
  {Ok(PRViewData(42, repo, st)) : st \in {"OPEN", "MERGED"}}
    \cup {BadJson} \cup Failures

PlainReplies == {Ok(<<>>)} \cup Failures

\* getCurrentBranchPR runs branch resolution twice, so its two runs draw
\* their replies from the plain cases of each set: a repository that is a
\* fork with its parent or no fork at all, lists of at most one PR, an
\* open PR, and one failure.
AuthFailure == Fail(Err("Error", <<"gh", "auth", "failed">>))

PlainRepoReplies ==
  {r \in RepoReplies :
     IF r.ok /\ r.out # Null
     THEN /\ r.out[1].login = "alice"
          /\ r.out[1].parent \in
               { Null,
                 Some(ParentPayload(Some(<<"org", "main-repo">>), Some("org"),
                                    Some("main-repo"))) }
          /\ r.out[1].isFork <=> r.out[1].parent # Null
     ELSE r \in {BadJson, AuthFailure}}

PlainListReplies(repo, branch) ==
  {r \in ListReplies(repo, branch) :
     IF r.ok /\ r.out # Null
     THEN /\ Len(r.out[1]) <= 1
          /\ \A k \in 1..Len(r.out[1]) :
               /\ r.out[1][k].headRefName = branch
               /\ r.out[1][k].headRepositoryOwner # Null
     ELSE r = AuthFailure}

PlainViewReplies(repo) ==
  {r \in ViewReplies(repo) :
     IF r.ok /\ r.out # Null THEN r.out[1].state = "OPEN"
     ELSE r = AuthFailure}

RepoRepliesTo(operation) ==
  IF operation = "getCurrentBranchPR" THEN PlainRepoReplies ELSE RepoReplies

ListRepliesTo(operation, repo, branch) ==
  IF operation = "getCurrentBranchPR" THEN PlainListReplies(repo, branch)
  ELSE ListReplies(repo, branch)

ViewRepliesTo(operation, repo) ==
  IF operation = "getCurrentBranchPR" THEN PlainViewReplies(repo)
  ELSE ViewReplies(repo)

UrlReplies(url) == {Ok(url)} \cup {BadJson} \cup Failures

\* `gh auth status` prints a check mark and "Logged in to <host>" per
\* authenticated account.
LoggedInNeedle == <<"(check)", "Logged", "in", "to">>

AuthStatusReplies ==
  { Ok(<<"github.com", "\n", "(check)", "Logged", "in", "to", "github.com",
         "account", "alice">>),
    Ok(<<"You", "are", "not", "logged", "in">>) } \cup Failures

DefaultBranchPayloads ==
  { [defaultBranchRef |-> Some([name |-> Some("develop")])],
    [defaultBranchRef |-> Some([name |-> Some("")])],
    [defaultBranchRef |-> Some([name |-> Null])],
    [defaultBranchRef |-> Null] }

DefaultBranchReplies ==
  {Ok(d) : d \in DefaultBranchPayloads} \cup {BadJson} \cup Failures

\* One entry of `gh pr list --json number,title,url,state,author`; the
\* author is null for a deleted account.
PRSummary(n, author) ==
  [number |-> n, title |-> <<"Fix", "branch", "discovery">>,
   url |-> PRUrl([fullName |-> <<"alice", "fork-repo">>], n),
   state |-> "OPEN", author |-> author]

PRSummaryLists ==
  UNION { { [i \in 1..n |-> PRSummary(i, as[i])] :
              as \in [1..n -> {Some("alice"), Null}] } : n \in 0..MaxList }

PRSummaryReplies == {Ok(l) : l \in PRSummaryLists} \cup {BadJson} \cup Failures

\* What fs.writeFile rejects with when the directory is not writable.
WriteError == Err("Error", <<"EACCES:", "permission", "denied">>)

\* The arguments the callers pass to the operations that change the PR.
PRNumbers == {Null, <<"42">>}

Titles == {<<"Add", "fork", "support">>}

Branches == {<<"feat/fork-branch">>, <<"main">>}

----------------------------------------------------------------------------
(* Commands and results *)

Cmd(c, repo, a) == [cmd |-> c, repo |-> repo, arg |-> a]

GitCurrentBranch == Cmd("git rev-parse --abbrev-ref HEAD", <<>>, <<>>)

GhRepoView == Cmd("gh repo view --json", <<>>, <<>>)

GhPRList(repo, branch) == Cmd("gh pr list --head", repo.fullName, branch)

\* Slip: the view query opens the browser.
GhPRView_Web(id, repo) == Cmd("gh pr view --web", repo.fullName, id)

GhPRView(id, repo) == Cmd("gh pr view --json", repo.fullName, id)

\* Slip: the browser is opened for whatever PR gh finds for the directory.
GhPRViewWeb_NoTarget(url) == Cmd("gh pr view --web", <<>>, <<>>)

GhPRViewWeb(url) == Cmd("gh pr view --web", <<>>, url)

GhPRViewUrl(url) == Cmd("gh pr view --json url", <<>>, url)

GhVersion == Cmd("gh --version", <<>>, <<>>)

GhAuthStatus == Cmd("gh auth status", <<>>, <<>>)

GhApiUser == Cmd("gh api user", <<>>, <<>>)

GhDefaultBranch == Cmd("gh repo view --json defaultBranchRef", <<>>, <<>>)

GhPRListAll == Cmd("gh pr list --json", <<>>, <<>>)

\* `gh pr create --title T --base B --head H --web`
GhPRCreate(title, baseBranch, branch) ==
  Cmd("gh pr create --web", <<>>, <<title, baseBranch, branch>>)

\* `gh pr comment [N] --body-file F` and `gh pr edit [N] --body-file F`
GhPRComment(prNumber, tempFile) ==
  Cmd("gh pr comment --body-file", <<>>, prNumber \o <<tempFile>>)

GhPREdit(prNumber, tempFile) ==
  Cmd("gh pr edit --body-file", <<>>, prNumber \o <<tempFile>>)

NoOutcome ==
  [kind |-> "none", url |-> Null, details |-> Null, error |-> Null,
   branch |-> Null, prs |-> Null, code |-> Null]

ReturnVoid == [NoOutcome EXCEPT !.kind = "return"]

ReturnUrl(u) == [NoOutcome EXCEPT !.kind = "return", !.url = u]

ReturnDetails(d) == [NoOutcome EXCEPT !.kind = "return", !.details = Some(d)]

Thrown(e) == [NoOutcome EXCEPT !.kind = "throw", !.error = Some(e)]

ReturnBranch(b) == [NoOutcome EXCEPT !.kind = "return", !.branch = Some(b)]

ReturnPRs(l) == [NoOutcome EXCEPT !.kind = "return", !.prs = Some(l)]

\* getCurrentBranchPR's `return null`
ReturnNull == [NoOutcome EXCEPT !.kind = "return"]

\* process.exit(code)
Exit(c) == [NoOutcome EXCEPT !.kind = "exit", !.code = Some(c)]

\* Slip: checkExistingPR has no try/catch.
Rejected_Rethrow(operation, e) == Thrown(e)

\* Slip: openPR and getPRDetails report a failed lookup as a missing PR.
Rejected_AsMissingPR(operation, e) ==
  IF operation = "checkExistingPR" THEN ReturnUrl(Null)
  ELSE Thrown(OpenPRNotFoundError)

\* What a rejected await becomes at the operation's boundary:
\* checkExistingPR catches everything, the others rethrow.
Rejected(operation, e) ==
  IF operation = "checkExistingPR" THEN ReturnUrl(Null) ELSE Thrown(e)

----------------------------------------------------------------------------
(* The operations *)

Init ==
  /\ op = "none"
  /\ arg = Null
  /\ pc = "idle"
  /\ executedCommands = <<>>
  /\ replies = <<>>
  /\ branchName = <<>>
  /\ repoContext = NoContext
  /\ searchTargets = <<>>
  /\ idx = 0
  /\ parsedPR = Null
  /\ currentBranchPR = NoResult
  /\ result = NoOutcome
  /\ files = {}
  /\ worktree = [staged |-> FALSE, unstaged |-> FALSE]
  /\ commits = <<>>
  /\ jiraOption = Null
  /\ commitType = Null
  /\ commitMessages = <<>>
  /\ commitMessage = Null
  /\ jiraContext = Null
  /\ inner = "none"

Issue(c) == executedCommands' = Append(executedCommands, c)

\* The method whose body is running: the operation itself, or the one
\* getCurrentBranchPR has called.
callee == IF op = "getCurrentBranchPR" THEN inner ELSE op

\* The running method returns or throws; inside getCurrentBranchPR that
\* settles the promise it awaits.
Settle(r) ==
  /\ pc' = IF op = "getCurrentBranchPR" THEN "settled" ELSE "done"
  /\ result' = r

\* findOpenPRForCurrentBranch up to its first await.
findOpenPRForCurrentBranch ==
  /\ Issue(GitCurrentBranch)
  /\ pc' = "branch"
  /\ UNCHANGED <<replies, branchName, repoContext, searchTargets, idx,
                  parsedPR, currentBranchPR, result, files, commitFlow>>

checkExistingPR ==
  /\ pc = "idle"
  /\ op' = "checkExistingPR"
  /\ arg' = Null
  /\ findOpenPRForCurrentBranch
  /\ UNCHANGED inner

openPR ==
  /\ pc = "idle"
  /\ op' = "openPR"
  /\ arg' = Null
  /\ findOpenPRForCurrentBranch
  /\ UNCHANGED inner

\* getPRDetails up to its first await, in each of its three input modes.
getPRDetails ==
  /\ pc = "idle"
  /\ op' = "getPRDetails"
  /\ \E id \in Identifiers :
       /\ arg' = id
       /\ IF startsWithHttp(id)
          THEN LET parsed == parseGitHubPRUrl(id)
               IN IF parsed = Null
                  THEN /\ Settle(Thrown(InvalidUrlError))
                       /\ UNCHANGED <<executedCommands, replies, branchName,
                                       repoContext, searchTargets, idx,
                                       parsedPR, currentBranchPR>>
                  ELSE /\ parsedPR' = parsed
                       /\ Issue(GhPRView(parsed[1].number, parsed[1].repo))
                       /\ pc' = "view"
                       /\ UNCHANGED <<replies, branchName, repoContext,
                                       searchTargets, idx, currentBranchPR,
                                       result>>
          ELSE IF id # Null
          THEN /\ Issue(GhRepoView)
               /\ pc' = "repoctx"
               /\ UNCHANGED <<replies, branchName, repoContext,
                               searchTargets, idx, parsedPR, currentBranchPR,
                               result>>
          ELSE findOpenPRForCurrentBranch
  /\ UNCHANGED <<files, inner, commitFlow>>

\* `await $\`git rev-parse --abbrev-ref HEAD\`` settles.
BranchReply ==
  /\ pc = "branch"
  /\ \E r \in BranchReplies :
       /\ replies' = Append(replies, r)
       /\ IF r.ok
          THEN /\ branchName' = trim(r.out[1])
               /\ Issue(GhRepoView)
               /\ pc' = "repoctx"
               /\ UNCHANGED result
          ELSE /\ Settle(Rejected(callee, r.err[1]))
               /\ UNCHANGED <<executedCommands, branchName>>
  /\ UNCHANGED <<op, arg, repoContext, searchTargets, idx, parsedPR,
                  currentBranchPR, files, inner, commitFlow>>

\* `await $\`gh repo view --json ...\`` settles: the rest of getRepoContext,
\* getPRSearchTargets, and the first query of the caller's loop.
RepoReply ==
  /\ pc = "repoctx"
  /\ \E r \in RepoRepliesTo(op) :
       /\ replies' = Append(replies, r)
       /\ IF r.ok /\ r.out # Null
          THEN LET ctx     == getRepoContext(r.out[1])
                   targets == getPRSearchTargets(ctx)
               IN /\ repoContext' = ctx
                  /\ searchTargets' = targets
                  /\ idx' = 1
                  /\ IF arg # Null
                     THEN /\ Issue(GhPRView(arg, targets[1]))
                          /\ pc' = "view"
                     ELSE /\ Issue(GhPRList(targets[1], branchName))
                          /\ pc' = "list"
                  /\ UNCHANGED result
          ELSE /\ Settle(Rejected(callee, IF r.ok THEN JsonSyntaxError
                                      ELSE r.err[1]))
               /\ UNCHANGED <<executedCommands, repoContext, searchTargets,
                               idx>>
  /\ UNCHANGED <<op, arg, branchName, parsedPR, currentBranchPR, files, inner,
                  commitFlow>>

\* Slip: the url query is started without awaiting the web-open call.
openCommands_NoAwait(url) == <<GhPRViewWeb(url), GhPRViewUrl(url)>>

\* What openPR starts before it next awaits, once it has the PR's url.
openCommands(url) == <<GhPRViewWeb(url)>>

\* What each caller does with the FindOpenPRResult.
Resolved(found) ==
  /\ currentBranchPR' = found
  /\ CASE callee = "checkExistingPR" ->
            /\ Settle(ReturnUrl(IF found.pr = Null THEN Null
                                ELSE Some(found.pr[1].url)))
            /\ UNCHANGED executedCommands
       [] callee = "openPR" ->
            IF found.pr = Null
            THEN /\ Settle(Thrown(OpenPRNotFoundError))
                 /\ UNCHANGED executedCommands
            ELSE /\ executedCommands' =
                      executedCommands \o openCommands(found.pr[1].url)
                 /\ pc' = "web"
                 /\ UNCHANGED result
       [] OTHER ->
            IF found.pr = Null
            THEN /\ Settle(Thrown(BranchNotFoundError(found)))
                 /\ UNCHANGED executedCommands
            ELSE /\ Issue(GhPRView(found.pr[1].number, found.pr[1].repo))
                 /\ pc' = "view"
                 /\ UNCHANGED result

\* Slip: the loop over the search plan stops after its first repository.
moreTargets_Never(i, targets) == FALSE

\* Does the for-of loop over the search plan have a repository after the
\* i-th?
moreTargets(i, targets) == i < Len(targets)

\* Slip: a rejected list query counts as an empty list.
parsePRs_EmptyOnFailure(r) == IF r.ok THEN r.out ELSE Some(<<>>)

\* `JSON.parse(result.stdout)` of the awaited list query; Null when the
\* await or the parse threw.
parsePRs(r) == IF r.ok THEN r.out ELSE Null

\* `await $\`gh pr list --state open --repo ... --head ...\`` settles.
ListReply ==
  /\ pc = "list"
  /\ \E r \in ListRepliesTo(op, searchTargets[idx], branchName) :
       /\ replies' = Append(replies, r)
       /\ IF parsePRs(r) # Null
          THEN LET matchingPR ==
                     findMatchingPR(parsePRs(r)[1], branchName, repoContext)
               IN IF matchingPR # Null
                  THEN /\ Resolved(FindOpenPRResult(
                            Some(PRReference(matchingPR[1],
                                             searchTargets[idx])),
                            branchName, searchTargets))
                       /\ UNCHANGED idx
                  ELSE IF moreTargets(idx, searchTargets)
                  THEN /\ idx' = idx + 1
                       /\ Issue(GhPRList(searchTargets[idx + 1], branchName))
                       /\ pc' = "list"
                       /\ UNCHANGED <<currentBranchPR, result>>
                  ELSE /\ Resolved(FindOpenPRResult(Null, branchName,
                                                    searchTargets))
                       /\ UNCHANGED idx
          ELSE /\ Settle(Rejected(callee, IF r.ok THEN JsonSyntaxError
                                      ELSE r.err[1]))
               /\ UNCHANGED <<executedCommands, idx, currentBranchPR>>
  /\ UNCHANGED <<op, arg, branchName, repoContext, searchTargets, parsedPR,
                  files, inner, commitFlow>>

\* Slip: the message is searched without lower-casing it.
isNotFound_CaseSensitive(message) == includes(message, NotFoundNeedle)

\* Slip: every failure of the view query moves on to the next repository.
isNotFound_AnyFailure(message) == TRUE

\* getPRDetails' catch clause: does the message say "no such pull request"?
isNotFound(message) == includes(toLowerCase(message), NotFoundNeedle)

\* Slip: the details are attributed to the working-directory repository.
viewRepo_Current ==
  IF parsedPR # Null THEN parsedPR[1].repo
  ELSE IF arg # Null THEN repoContext.current
  ELSE currentBranchPR.pr[1].repo

\* The repository the outstanding getPRView call was given.
viewRepo ==
  IF parsedPR # Null THEN parsedPR[1].repo
  ELSE IF arg # Null THEN searchTargets[idx]
  ELSE currentBranchPR.pr[1].repo

\* `await $\`gh pr view ... --repo ... --json ...\`` settles: the rest of
\* getPRView and of getPRDetails, the try/catch of number mode included.
ViewReply ==
  /\ pc = "view"
  /\ \E r \in ViewRepliesTo(op, viewRepo) :
       /\ replies' = Append(replies, r)
       /\ IF r.ok /\ r.out # Null
          THEN /\ Settle(ReturnDetails(toPRDetails(r.out[1], viewRepo)))
               /\ UNCHANGED <<executedCommands, idx>>
          ELSE LET error == IF r.ok THEN JsonSyntaxError ELSE r.err[1]
               IN IF /\ parsedPR = Null
                     /\ arg # Null
                     /\ isNotFound(error.message)
                  THEN IF moreTargets(idx, searchTargets)
                       THEN /\ idx' = idx + 1
                            /\ Issue(GhPRView(arg, searchTargets[idx + 1]))
                            /\ pc' = "view"
                            /\ UNCHANGED result
                       ELSE /\ Settle(Thrown(
                                 NumberNotFoundError(arg, searchTargets)))
                            /\ UNCHANGED <<executedCommands, idx>>
                  ELSE /\ Settle(Thrown(error))
                       /\ UNCHANGED <<executedCommands, idx>>
  /\ UNCHANGED <<op, arg, branchName, repoContext, searchTargets, parsedPR,
                  currentBranchPR, files, inner, commitFlow>>

\* openPR: `await $\`gh pr view ${prUrl} --web\`` settles.
WebReply ==
  /\ pc = "web"
  /\ \E r \in PlainReplies :
       /\ replies' = Append(replies, r)
       /\ IF r.ok
          THEN /\ Issue(GhPRViewUrl(currentBranchPR.pr[1].url))
               /\ pc' = "urlview"
               /\ UNCHANGED result
          ELSE /\ Settle(Thrown(r.err[1]))
               /\ UNCHANGED executedCommands
  /\ UNCHANGED <<op, arg, branchName, repoContext, searchTargets, idx,
                  parsedPR, currentBranchPR, files, inner, commitFlow>>

\* openPR: `await $\`gh pr view ${prUrl} --json url\`` settles.
UrlViewReply ==
  /\ pc = "urlview"
  /\ \E r \in UrlReplies(currentBranchPR.pr[1].url) :
       /\ replies' = Append(replies, r)
       /\ Settle(IF r.ok /\ r.out # Null THEN ReturnVoid
                 ELSE Thrown(IF r.ok THEN JsonSyntaxError ELSE r.err[1]))
  /\ UNCHANGED <<op, arg, executedCommands, branchName, repoContext,
                  searchTargets, idx, parsedPR, currentBranchPR, files, inner,
                  commitFlow>>

\* getCurrentBranchPR up to the first await of the checkExistingPR it
\* calls.
getCurrentBranchPR ==
  /\ pc = "idle"
  /\ op' = "getCurrentBranchPR"
  /\ arg' = Null
  /\ inner' = "checkExistingPR"
  /\ findOpenPRForCurrentBranch

\* Slip: getCurrentBranchPR has no try/catch around getPRDetails.
caughtDetails_Rethrow(outcome) == outcome

\* getCurrentBranchPR's `return await this.getPRDetails()` inside its
\* try/catch: a rejection becomes null.
caughtDetails(outcome) ==
  IF outcome.kind = "throw" THEN ReturnNull ELSE outcome

\* The promise getCurrentBranchPR awaits has settled: after checkExistingPR
\* it returns null without a url and otherwise calls getPRDetails(), which
\* starts branch resolution afresh; after getPRDetails it returns.
CurrentBranchPRResumes ==
  /\ pc = "settled"
  /\ IF inner = "checkExistingPR" /\ result.url # Null
     THEN /\ inner' = "getPRDetails"
          /\ Issue(GitCurrentBranch)
          /\ pc' = "branch"
          /\ result' = NoOutcome
          /\ branchName' = <<>>
          /\ repoContext' = NoContext
          /\ searchTargets' = <<>>
          /\ idx' = 0
          /\ currentBranchPR' = NoResult
     ELSE /\ pc' = "done"
          /\ result' = IF inner = "checkExistingPR" THEN ReturnNull
                       ELSE caughtDetails(result)
          /\ UNCHANGED <<executedCommands, inner, branchName, repoContext,
                          searchTargets, idx, currentBranchPR>>
  /\ UNCHANGED <<op, arg, replies, parsedPR, files, commitFlow>>

\* checkCLI up to `await $\`gh --version\``.
checkCLI ==
  /\ pc = "idle"
  /\ op' = "checkCLI"
  /\ arg' = Null
  /\ Issue(GhVersion)
  /\ pc' = "ghversion"
  /\ UNCHANGED <<replies, result, lookup, files, commitFlow>>

\* `gh --version` settles; on success `gh auth status` is started.
VersionReply ==
  /\ pc = "ghversion"
  /\ \E r \in PlainReplies :
       /\ replies' = Append(replies, r)
       /\ IF r.ok
          THEN /\ Issue(GhAuthStatus)
               /\ pc' = "authstatus"
               /\ UNCHANGED result
          ELSE /\ Settle(Exit(1))
               /\ UNCHANGED executedCommands
  /\ UNCHANGED <<op, arg, lookup, files, commitFlow>>

\* Slip: the catch clause runs `gh auth status` a second time.
authFallback_Retry == GhAuthStatus

\* What checkCLI's catch clause runs when `gh auth status` did not show a
\* logged-in account.
authFallback == GhApiUser

\* `gh auth status` settles.
AuthStatusReply ==
  /\ pc = "authstatus"
  /\ \E r \in AuthStatusReplies :
       /\ replies' = Append(replies, r)
       /\ IF r.ok /\ includes(r.out[1], LoggedInNeedle)
          THEN /\ Settle(ReturnVoid)
               /\ UNCHANGED executedCommands
          ELSE /\ Issue(authFallback)
               /\ pc' = "apiuser"
               /\ UNCHANGED result
  /\ UNCHANGED <<op, arg, lookup, files, commitFlow>>

\* `gh api user` settles.
ApiUserReply ==
  /\ pc = "apiuser"
  /\ \E r \in PlainReplies :
       /\ replies' = Append(replies, r)
       /\ Settle(IF r.ok THEN ReturnVoid ELSE Exit(1))
  /\ UNCHANGED <<op, arg, executedCommands, lookup, files, commitFlow>>

\* getDefaultBranch up to its await.
getDefaultBranch ==
  /\ pc = "idle"
  /\ op' = "getDefaultBranch"
  /\ arg' = Null
  /\ Issue(GhDefaultBranch)
  /\ pc' = "defaultbranch"
  /\ UNCHANGED <<replies, result, lookup, files, commitFlow>>

\* `gh repo view --json defaultBranchRef` settles.
DefaultBranchReply ==
  /\ pc = "defaultbranch"
  /\ \E r \in DefaultBranchReplies :
       /\ replies' = Append(replies, r)
       /\ Settle(IF /\ r.ok
                    /\ r.out # Null
                    /\ r.out[1].defaultBranchRef # Null
                    /\ TruthyStr(r.out[1].defaultBranchRef[1].name)
                 THEN ReturnBranch(r.out[1].defaultBranchRef[1].name[1])
                 ELSE ReturnBranch("main"))
  /\ UNCHANGED <<op, arg, executedCommands, lookup, files, commitFlow>>

\* listPRs up to its await.
listPRs ==
  /\ pc = "idle"
  /\ op' = "listPRs"
  /\ arg' = Null
  /\ Issue(GhPRListAll)
  /\ pc' = "listprs"
  /\ UNCHANGED <<replies, result, lookup, files, commitFlow>>

\* The callback of listPRs' prs.map.
toPR(pr) ==
  [number |-> <<ToString(pr.number)>>, title |-> pr.title, url |-> pr.url,
   state |-> LowerToken(pr.state), author |-> pr.author[1]]

\* `gh pr list --json ...` settles; reading .login of a null author throws
\* inside the try block.
PRListAllReply ==
  /\ pc = "listprs"
  /\ \E r \in PRSummaryReplies :
       /\ replies' = Append(replies, r)
       /\ Settle(IF /\ r.ok
                    /\ r.out # Null
                    /\ \A i \in 1..Len(r.out[1]) : r.out[1][i].author # Null
                 THEN ReturnPRs([i \in 1..Len(r.out[1]) |-> toPR(r.out[1][i])])
                 ELSE ReturnPRs(<<>>))
  /\ UNCHANGED <<op, arg, executedCommands, lookup, files, commitFlow>>

\* createPR up to its await.
createPR ==
  /\ pc = "idle"
  /\ op' = "createPR"
  /\ arg' = Null
  /\ \E title \in Titles, branch \in Branches, baseBranch \in Branches :
       Issue(GhPRCreate(title, baseBranch, branch))
  /\ pc' = "create"
  /\ UNCHANGED <<replies, result, lookup, files, commitFlow>>

\* `gh pr create ... --web` settles.
CreateReply ==
  /\ pc = "create"
  /\ \E r \in PlainReplies :
       /\ replies' = Append(replies, r)
       /\ Settle(IF r.ok THEN ReturnVoid ELSE Thrown(r.err[1]))
  /\ UNCHANGED <<op, arg, executedCommands, lookup, files, commitFlow>>

\* The temporary file of each of the two file-passing operations.
tempFileOf(operation) ==
  IF operation = "postComment" THEN "temp_comment.md"
  ELSE "temp_description.md"

\* postComment / updateDescription up to the await of the remote command:
\* fs.writeFile, outside the try block, then the command.
WriteBodyFile(operation, prNumber) ==
  /\ pc = "idle"
  /\ op' = operation
  /\ arg' = prNumber
  /\ \/ /\ files' = files \cup {tempFileOf(operation)}
        /\ Issue(IF operation = "postComment"
                 THEN GhPRComment(prNumber, tempFileOf(operation))
                 ELSE GhPREdit(prNumber, tempFileOf(operation)))
        /\ pc' = "bodyfile"
        /\ UNCHANGED result
     \/ /\ Settle(Thrown(WriteError))
        /\ UNCHANGED <<executedCommands, files>>
  /\ UNCHANGED <<replies, lookup, commitFlow>>

postComment == \E prNumber \in PRNumbers : WriteBodyFile("postComment", prNumber)

updateDescription ==
  \E prNumber \in PRNumbers : WriteBodyFile("updateDescription", prNumber)

\* Slip: the file is removed after the try block instead of in `finally`.
cleanupRuns_OnlyOnSuccess(ok) == ok

\* Does the block that unlinks the temporary file run, given how the
\* remote command settled?  It is a `finally` block.
cleanupRuns(ok) == TRUE

\* The remote command of postComment / updateDescription settles: the
\* finally block, then the operation returns or rethrows.  fs.unlink
\* removes the file the operation wrote; its own errors are ignored.
BodyFileReply ==
  /\ pc = "bodyfile"
  /\ \E r \in PlainReplies :
       /\ replies' = Append(replies, r)
       /\ files' = IF cleanupRuns(r.ok) THEN files \ {tempFileOf(op)}
                   ELSE files
       /\ Settle(IF r.ok THEN ReturnVoid ELSE Thrown(r.err[1]))
  /\ UNCHANGED <<op, arg, executedCommands, lookup, commitFlow>>

----------------------------------------------------------------------------
(* git ai-commit *)

COMMIT_TYPE_CHOICES ==
  {"feat", "fix", "docs", "style", "refactor", "perf", "test", "chore",
   "ci", "build"}

NoStagedError ==
  Err("Error", <<"No", "staged", "changes", "detected.", "Please", "stage",
                 "your", "files", "before", "committing.">>)

JiraUnresolvedError ==
  Err("Error", <<"Unable", "to", "resolve", "JIRA", "ticket.">>)

InvalidJiraError ==
  Err("Error", <<"Invalid", "JIRA", "ticket", "format.">>)

ParseError == Err("Error", <<"Failed", "to", "parse", "AI", "output">>)

\* What a prompt rejects with when the user closes it.
ExitPromptError ==
  Err("ExitPromptError", <<"User", "force", "closed", "the", "prompt">>)

LocalFailure == Fail(Err("Error", <<"command", "failed">>))

CallReplies == {Ok(<<>>), LocalFailure}

\* The working directory when the command starts.
Worktrees == [staged : BOOLEAN, unstaged : BOOLEAN]

Prompts == {Null, <<"explain", "why">>}

JiraKeys == {"PROJ-123"}

UpperKey(t) == IF t = "proj-123" THEN "PROJ-123" ELSE t

\* options.jira: absent, the bare flag (true), or the flag with a value.
JiraOptions ==
  { Null,
    Some([ticket |-> Null]),
    Some([ticket |-> Some(<<"proj-123">>)]),
    Some([ticket |-> Some(<<"https:", "", "example.atlassian.net", "browse",
                             "PROJ-123">>)]),
    Some([ticket |-> Some(<<"not-a-ticket">>)]) }

ConfigReplies ==
  { Ok([jira |-> Some(<<"https:", "", "jira.example.com">>)]),
    Ok([jira |-> Null]),
    LocalFailure }

\* `git diff --cached` prints the staged changes, nothing when none are.
GitDiffReplies(tree) ==
  { IF tree.staged THEN Ok(<<"diff", "--git", "a/x", "b/x", "\n">>)
    ELSE Ok(<<>>),
    LocalFailure }

Suggestion(type, n) == <<type, ":", "option", ToString(n)>>

\* executeAIWithOutput's output as parseNumberedOutput reads it.
AiReplies(type) ==
  { Ok([success |-> TRUE,
        values |-> <<Suggestion(type, 1), Suggestion(type, 2)>>]),
    Ok([success |-> TRUE, values |-> <<>>]),
    Ok([success |-> FALSE, values |-> <<>>]),
    LocalFailure }

\* The exit code of `git diff --cached --quiet`: 1 with staged changes,
\* 0 without, 128 outside a repository.
StagedReplies(tree) == {Ok(IF tree.staged THEN 1 ELSE 0), Ok(128)}

\* `git commit` succeeds only with something staged; a hook can reject it.
CommitReplies(tree) ==
  IF tree.staged THEN CallReplies ELSE {LocalFailure}

CurrentBranches ==
  { <<"feat/", "PROJ-123", "-add-auth">>, <<"main">> }

JiraDetails ==
  { Some([summary |-> <<" ", "Add", "\n", "auth">>]),
    Some([summary |-> <<" ">>]),
    Null }

Call(name, a) == Cmd(name, <<>>, a)

GitDiffCached == Call("git diff --cached", <<>>)

GitDiffQuiet == Call("git diff --cached --quiet", <<>>)

GitCommit(message) == Call("git commit -m", message)

\* extractJiraTicket: the ticket key in the branch name, if any.
extractJiraTicket(branch) ==
  IF \E i \in 1..Len(branch) : branch[i] \in JiraKeys
  THEN Some(branch[CHOOSE i \in 1..Len(branch) :
                     /\ branch[i] \in JiraKeys
                     /\ \A j \in 1..(i - 1) : branch[j] \notin JiraKeys])
  ELSE Null

\* normalizeJiraTicketInput: a lone key, upper-cased.
normalizeJiraTicketInput(input) ==
  IF Len(input) = 1 /\ UpperKey(input[1]) \in JiraKeys
  THEN Some(UpperKey(input[1]))
  ELSE Null

\* JIRA_URL_PATTERN matches at segment i.
JiraUrlAt(input, i) ==
  /\ i + 4 <= Len(input)
  /\ input[i] \in {"http:", "https:"}
  /\ input[i + 1] = ""
  /\ input[i + 2] # ""
  /\ input[i + 3] = "browse"
  /\ UpperKey(input[i + 4]) \in JiraKeys

\* parseJiraInput: Null stands for the thrown "Invalid JIRA ticket format".
parseJiraInput(input) ==
  IF \E i \in 1..Len(input) : JiraUrlAt(input, i)
  THEN LET i == CHOOSE k \in 1..Len(input) :
                  /\ JiraUrlAt(input, k)
                  /\ \A j \in 1..(k - 1) : ~JiraUrlAt(input, j)
           key == UpperKey(input[i + 4])
       IN Some([key |-> key,
                browseUrl |-> Some(SubSeq(input, i, i + 2)
                                     \o <<"browse", key>>)])
  ELSE IF normalizeJiraTicketInput(input) # Null
  THEN Some([key |-> normalizeJiraTicketInput(input)[1], browseUrl |-> Null])
  ELSE Null

\* `${config.jira.baseUrl}/browse/${key}` when JIRA is configured.
configuredUrl(config, key) ==
  IF config.jira # Null THEN Some(config.jira[1] \o <<"browse", key>>)
  ELSE Null

\* summary.replace(/\s+/g, ' ')
RECURSIVE collapseSpaces(_)
collapseSpaces(s) ==
  IF s = <<>> THEN <<>>
  ELSE IF Head(s) \in Whitespace
  THEN <<" ">> \o collapseSpaces(TrimStart(Tail(s)))
  ELSE <<Head(s)>> \o collapseSpaces(Tail(s))

buildJiraCommitMessage(type, context) ==
  LET title == IF context.summary = Null THEN <<>>
               ELSE trim(collapseSpaces(context.summary[1]))
      subject == <<type, ":", "[", context.key, "]">>
                   \o (IF title # <<>> THEN title ELSE <<context.key>>)
  IN IF context.browseUrl # Null
     THEN subject \o <<"\n\n", "link:">> \o context.browseUrl[1]
     ELSE subject

\* main's catch clause: console.error and process.exit(1).
ExitWith(e) == [Exit(1) EXCEPT !.error = Some(e)]

Caught(e) == Settle(ExitWith(e)) /\ UNCHANGED executedCommands

Proceed(c, next) == Issue(c) /\ pc' = next /\ UNCHANGED result

\* main's action up to `await checkAndUpgrade()`.
main ==
  /\ pc = "idle"
  /\ op' = "aiCommit"
  /\ \E prompt \in Prompts, jira \in JiraOptions, tree \in Worktrees :
       /\ arg' = prompt
       /\ jiraOption' = jira
       /\ worktree' = tree
  /\ Proceed(Call("checkAndUpgrade", <<>>), "upgrade")
  /\ UNCHANGED <<replies, lookup, files, commits, commitType,
                  commitMessages, commitMessage, jiraContext>>

UpgradeReply ==
  /\ pc = "upgrade"
  /\ \E r \in CallReplies :
       /\ replies' = Append(replies, r)
       /\ IF r.ok THEN Proceed(Call("checkGitCLI", <<>>), "gitcli")
          ELSE Caught(r.err[1])
  /\ UNCHANGED <<op, arg, lookup, files, commitFlow>>

GitCLIReply ==
  /\ pc = "gitcli"
  /\ \E r \in CallReplies :
       /\ replies' = Append(replies, r)
       /\ IF r.ok THEN Proceed(Call("select commit type", <<>>), "type")
          ELSE Caught(r.err[1])
  /\ UNCHANGED <<op, arg, lookup, files, commitFlow>>

\* Slip: only a ticket given on the command line selects the JIRA flow.
usesJira_TicketOnly(option) == option # Null /\ option[1].ticket # Null

\* main's `if (options.jira)`.
usesJira(option) == option # Null

\* The commit type prompt settles: runJiraCommitFlow up to loadConfig in
\* resolveJiraContext, or runAiCommitFlow up to `git diff --cached`.
CommitTypeReply ==
  /\ pc = "type"
  /\ \E r \in {Ok(t) : t \in COMMIT_TYPE_CHOICES} \cup {Fail(ExitPromptError)} :
       /\ replies' = Append(replies, r)
       /\ IF r.ok
          THEN /\ commitType' = r.out
               /\ IF usesJira(jiraOption)
                  THEN Proceed(Call("loadConfig", <<>>), "jiraconfig")
                  ELSE Proceed(GitDiffCached, "diff")
          ELSE /\ Caught(r.err[1])
               /\ UNCHANGED commitType
  /\ UNCHANGED <<op, arg, lookup, files, worktree, commits, jiraOption,
                  commitMessages, commitMessage, jiraContext>>

\* getGitDiff after its await, then generateCommitMessages up to loadConfig.
GitDiffReply ==
  /\ pc = "diff"
  /\ \E r \in GitDiffReplies(worktree) :
       /\ replies' = Append(replies, r)
       /\ IF ~r.ok THEN Caught(r.err[1])
          ELSE IF trim(r.out[1]) = <<>> THEN Caught(NoStagedError)
          ELSE Proceed(Call("loadConfig", <<>>), "aiconfig")
  /\ UNCHANGED <<op, arg, lookup, files, commitFlow>>

AiConfigReply ==
  /\ pc = "aiconfig"
  /\ \E r \in ConfigReplies :
       /\ replies' = Append(replies, r)
       /\ IF r.ok
          THEN Proceed(Call("executeAIWithOutput", arg \o commitType), "ai")
          ELSE Caught(r.err[1])
  /\ UNCHANGED <<op, arg, lookup, files, commitFlow>>

\* executeAIWithOutput settles: parseNumberedOutput, then the message
\* prompt of runAiCommitFlow.
AiReply ==
  /\ pc = "ai"
  /\ \E r \in AiReplies(commitType[1]) :
       /\ replies' = Append(replies, r)
       /\ IF r.ok /\ r.out[1].success /\ r.out[1].values # <<>>
          THEN /\ commitMessages' = r.out[1].values
               /\ Proceed(Call("select commit message", <<>>), "message")
          ELSE /\ Caught(IF r.ok THEN ParseError ELSE r.err[1])
               /\ UNCHANGED commitMessages
  /\ UNCHANGED <<op, arg, lookup, files, worktree, commits, jiraOption,
                  commitType, commitMessage, jiraContext>>

\* createCommit up to `await $\`git diff --cached --quiet\`.exitCode`.
createCommit(message) ==
  /\ commitMessage' = Some(message)
  /\ Proceed(GitDiffQuiet, "staged")

MessageReply ==
  /\ pc = "message"
  /\ \E r \in {Ok(commitMessages[i]) : i \in 1..Len(commitMessages)}
               \cup {Fail(ExitPromptError)} :
       /\ replies' = Append(replies, r)
       /\ IF r.ok THEN createCommit(r.out[1])
          ELSE Caught(r.err[1]) /\ UNCHANGED commitMessage
  /\ UNCHANGED <<op, arg, lookup, files, worktree, commits, jiraOption,
                  commitType, commitMessages, jiraContext>>

\* The staged check of createCommit settles.
StagedReply ==
  /\ pc = "staged"
  /\ \E r \in StagedReplies(worktree) :
       /\ replies' = Append(replies, r)
       /\ IF r.out[1] # 0
          THEN Proceed(GitCommit(commitMessage[1]), "commit")
          ELSE Caught(NoStagedError)
  /\ UNCHANGED <<op, arg, lookup, files, commitFlow>>

\* `git commit -m` settles.
CommitReply ==
  /\ pc = "commit"
  /\ \E r \in CommitReplies(worktree) :
       /\ replies' = Append(replies, r)
       /\ IF r.ok
          THEN /\ commits' = Append(commits, commitMessage[1])
               /\ worktree' = [worktree EXCEPT !.staged = FALSE]
               /\ Settle(ReturnVoid)
          ELSE /\ Settle(ExitWith(r.err[1]))
               /\ UNCHANGED <<commits, worktree>>
  /\ UNCHANGED <<op, arg, executedCommands, lookup, files, jiraOption,
                  commitType, commitMessages, commitMessage, jiraContext>>

\* resolveJiraContext after loadConfig: the branch or the given ticket.
JiraConfigReply ==
  /\ pc = "jiraconfig"
  /\ \E r \in ConfigReplies :
       /\ replies' = Append(replies, r)
       /\ IF ~r.ok
          THEN Caught(r.err[1]) /\ UNCHANGED jiraContext
          ELSE IF jiraOption[1].ticket = Null
          THEN Proceed(Call("getCurrentBranch", <<>>), "jirabranch")
                 /\ UNCHANGED jiraContext
          ELSE LET jiraInput == parseJiraInput(jiraOption[1].ticket[1])
               IN IF jiraInput = Null
                  THEN Caught(InvalidJiraError) /\ UNCHANGED jiraContext
                  ELSE /\ jiraContext' =
                            Some([key |-> jiraInput[1].key,
                                  browseUrl |->
                                    IF jiraInput[1].browseUrl # Null
                                    THEN jiraInput[1].browseUrl
                                    ELSE configuredUrl(r.out[1],
                                                       jiraInput[1].key),
                                  source |-> "api"])
                       /\ Proceed(Call("getJiraTicketDetails",
                                       <<jiraInput[1].key>>), "jiradetails")
  /\ UNCHANGED <<op, arg, lookup, files, worktree, commits, jiraOption,
                  commitType, commitMessages, commitMessage>>

\* getCurrentBranch settles; the configuration is loadConfig's reply.
JiraBranchReply ==
  /\ pc = "jirabranch"
  /\ \E r \in {Ok(b) : b \in CurrentBranches} \cup {LocalFailure} :
       /\ replies' = Append(replies, r)
       /\ IF ~r.ok
          THEN Caught(r.err[1]) /\ UNCHANGED jiraContext
          ELSE LET jiraTicket == extractJiraTicket(r.out[1])
                   config == replies[Len(replies)].out[1]
               IN IF jiraTicket = Null
                  THEN Caught(JiraUnresolvedError) /\ UNCHANGED jiraContext
                  ELSE /\ jiraContext' =
                            Some([key |-> jiraTicket[1],
                                  browseUrl |->
                                    configuredUrl(config, jiraTicket[1]),
                                  source |-> "branch"])
                       /\ Proceed(Call("getJiraTicketDetails", jiraTicket),
                                  "jiradetails")
  /\ UNCHANGED <<op, arg, lookup, files, worktree, commits, jiraOption,
                  commitType, commitMessages, commitMessage>>

\* getJiraTicketDetails settles: the rest of resolveJiraContext and of
\* runJiraCommitFlow up to createCommit's first await.
JiraDetailsReply ==
  /\ pc = "jiradetails"
  /\ \E r \in {Ok(d) : d \in JiraDetails} \cup {LocalFailure} :
       /\ replies' = Append(replies, r)
       /\ IF ~r.ok
          THEN Caught(r.err[1]) /\ UNCHANGED commitMessage
          ELSE LET context ==
                     [key |-> jiraContext[1].key,
                      browseUrl |-> jiraContext[1].browseUrl,
                      summary |-> IF r.out[1] = Null THEN Null
                                  ELSE Some(r.out[1][1].summary)]
               IN createCommit(buildJiraCommitMessage(commitType[1], context))
  /\ UNCHANGED <<op, arg, lookup, files, worktree, commits, jiraOption,
                  commitType, commitMessages, jiraContext>>

Next ==
  \/ checkExistingPR
  \/ openPR
  \/ getPRDetails
  \/ BranchReply
  \/ RepoReply
  \/ ListReply
  \/ ViewReply
  \/ WebReply
  \/ UrlViewReply
  \/ getCurrentBranchPR
  \/ CurrentBranchPRResumes
  \/ checkCLI
  \/ VersionReply
  \/ AuthStatusReply
  \/ ApiUserReply
  \/ getDefaultBranch
  \/ DefaultBranchReply
  \/ listPRs
  \/ PRListAllReply
  \/ createPR
  \/ CreateReply
  \/ postComment
  \/ updateDescription
  \/ BodyFileReply
  \/ main
  \/ UpgradeReply
  \/ GitCLIReply
  \/ CommitTypeReply
  \/ GitDiffReply
  \/ AiConfigReply
  \/ AiReply
  \/ MessageReply
  \/ StagedReply
  \/ CommitReply
  \/ JiraConfigReply
  \/ JiraBranchReply
  \/ JiraDetailsReply

Spec == Init /\ [][Next]_vars

----------------------------------------------------------------------------
(* Vocabulary of the properties *)

\* GitHub logins are case-insensitive: two spellings of one account.
SameAccount(a, b) ==
  \/ a = b
  \/ {a, b} \subseteq {"alice", "Alice", "ALICE"}

\* The failures by which gh says that the repository has no such PR.
NotFoundFailures ==
  { Fail(Err("Error", <<"no", "pull", "requests", "found", "for", "branch">>)),
    Fail(Err("Error", <<"GraphQL:", "No", "Pull", "Requests", "Found">>)) }

ContextLoaded == searchTargets # <<>>

ForkWithParent ==
  ContextLoaded /\ repoContext.isFork /\ repoContext.parent # Null

Upstream == repoContext.parent[1]

Current == repoContext.current

Answered(i) == i <= Len(replies)

Parsed(i) == Answered(i) /\ replies[i].ok /\ replies[i].out # Null

\* Positions of the list-by-branch query for a repository.
ListQueries(repo) ==
  {i \in 1..Len(executedCommands) :
     executedCommands[i] = GhPRList(repo, branchName)}

\* An open PR of the current branch whose head belongs to the current owner.
IsOwnBranchPR(item) ==
  /\ item.headRefName = branchName
  /\ item.headRepositoryOwner # Null
  /\ SameAccount(item.headRepositoryOwner[1], Current.owner)

OwnBranchPRs(i) ==
  {k \in 1..Len(replies[i].out[1]) : IsOwnBranchPR(replies[i].out[1][k])}

\* The list query for repo was answered with / without such a PR.
ListedMatch(repo) ==
  \E i \in ListQueries(repo) : Parsed(i) /\ OwnBranchPRs(i) # {}

ListedNoMatch(repo) ==
  \E i \in ListQueries(repo) : Parsed(i) /\ OwnBranchPRs(i) = {}

\* URLs of the PRs of that kind that the list query for repo returned.
MatchUrls(repo) ==
  UNION { {replies[i].out[1][k].url : k \in OwnBranchPRs(i)} :
            i \in {j \in ListQueries(repo) : Parsed(j)} }

BranchResolution == op \in {"checkExistingPR", "openPR"}
                      \/ (op = "getPRDetails" /\ arg = Null)

NumberMode ==
  op = "getPRDetails" /\ Len(arg) = 1 /\ arg[1] \in Digits

FullNames(targets) == [i \in 1..Len(targets) |-> targets[i].fullName]

OccursAt(text, sub, i) ==
  /\ i + Len(sub) <= Len(text)
  /\ \A j \in 1..Len(sub) : text[i + j] = sub[j]

\* Every name occurs in the text, one after the other in the given order.
NamesInOrder(text, names) ==
  \E pos \in [1..Len(names) -> 0..Len(text)] :
    /\ \A k \in 1..Len(names) : OccursAt(text, names[k], pos[k])
    /\ \A k \in 1..(Len(names) - 1) :
         pos[k] + Len(names[k]) <= pos[k + 1]

----------------------------------------------------------------------------
(* Search plan and branch resolution *)

\* C1: the search plan is exactly [parent, current] when the context is a
\* fork with a non-null parent and exactly [current] in every other case;
\* it holds no other repository and never more than two entries.
C1_SearchPlan ==
  ContextLoaded =>
    /\ (repoContext.isFork /\ repoContext.parent # Null)
         => searchTargets = <<repoContext.parent[1], repoContext.current>>
    /\ (~repoContext.isFork \/ repoContext.parent = Null)
         => searchTargets = <<repoContext.current>>
    /\ Len(searchTargets) <= 2
    /\ \A i \in 1..Len(searchTargets) :
         \/ searchTargets[i] = repoContext.current
         \/ repoContext.parent = Some(searchTargets[i])

\* A repository that is not a fork although its payload names a parent.
C1_Witness ==
  /\ ContextLoaded
  /\ ~repoContext.isFork
  /\ repoContext.parent # Null
  /\ searchTargets = <<repoContext.current>>

\* C2: in a fork whose upstream lists an open PR of the current branch with
\* the current owner as head owner, branch resolution returns an upstream
\* PR of that kind and the fork's list-by-branch query is never issued.
C2_UpstreamWins ==
  (BranchResolution /\ ForkWithParent /\ ListedMatch(Upstream)) =>
    /\ ListQueries(Current) = {}
    /\ currentBranchPR.pr # Null
    /\ currentBranchPR.pr[1].repo = Upstream
    /\ currentBranchPR.pr[1].url \in MatchUrls(Upstream)
    /\ (op = "checkExistingPR") =>
         (pc = "done" /\ result = ReturnUrl(Some(currentBranchPR.pr[1].url)))

\* checkExistingPR returned the upstream PR although the spelling of the
\* head owner differs from the current owner's.
C2_Witness ==
  /\ op = "checkExistingPR"
  /\ pc = "done"
  /\ ForkWithParent
  /\ ListedMatch(Upstream)
  /\ Current.owner = "Alice"
  /\ result.url # Null
  /\ result.url[1] \in MatchUrls(Upstream)

\* The list-by-branch queries issued so far, in order.
ListCommands ==
  SelectSeq(executedCommands, LAMBDA c : c.cmd = "gh pr list --head")

\* C3: in a fork whose upstream lists no matching open PR while the fork
\* lists one, branch resolution returns the fork's PR, and the list queries
\* were issued upstream first, fork second.
C3_ForkFallback ==
  (BranchResolution /\ ForkWithParent /\ ListedNoMatch(Upstream)) =>
    /\ ListCommands = <<GhPRList(Upstream, branchName),
                        GhPRList(Current, branchName)>>
    /\ ListedMatch(Current) =>
         /\ currentBranchPR.pr # Null
         /\ currentBranchPR.pr[1].repo = Current
         /\ currentBranchPR.pr[1].url \in MatchUrls(Current)
         /\ (op = "checkExistingPR") =>
              result = ReturnUrl(Some(currentBranchPR.pr[1].url))

\* Upstream listed only foreign PRs, the fork listed a matching one.
C3_Witness ==
  /\ BranchResolution
  /\ ForkWithParent
  /\ ListedNoMatch(Upstream)
  /\ ListedMatch(Current)
  /\ Len(replies[3].out[1]) > 0
  /\ currentBranchPR.pr # Null
  /\ currentBranchPR.pr[1].repo = Current

----------------------------------------------------------------------------
(* getPRDetails by URL and by number *)

\* A PR URL of the documented form https://github.com/owner/repo/pull/123,
\* optionally followed by a sub-page.
WellFormedPRUrl(id) ==
  /\ Len(id) >= 7
  /\ SubSeq(id, 1, 3) = <<"https:", "", "github.com">>
  /\ id[4] # ""
  /\ id[5] # ""
  /\ id[6] = "pull"
  /\ id[7] \in Digits

\* C4: given a full PR URL, getPRDetails queries only the owner/repo of the
\* URL: no repository-context and no current-branch query is issued, every
\* view query names that repository, and the returned owner/repo are the
\* URL's whatever the working directory is.
C4_UrlIsAuthoritative ==
  (op = "getPRDetails" /\ WellFormedPRUrl(arg)) =>
    /\ executedCommands = <<Cmd("gh pr view --json", <<arg[4], arg[5]>>,
                               <<arg[7]>>)>>
    /\ repoContext = NoContext
    /\ (result.kind = "return") =>
         /\ result.details # Null
         /\ result.details[1].owner = arg[4]
         /\ result.details[1].repo = arg[5]
    /\ (pc = "done" /\ Parsed(1)) => result.kind = "return"

\* Details were returned for a URL that points at a sub-page of the PR.
C4_Witness ==
  /\ op = "getPRDetails"
  /\ WellFormedPRUrl(arg)
  /\ Len(arg) > 7
  /\ pc = "done"
  /\ result.details # Null
  /\ result.details[1].owner = "org"

\* C5: given a bare number in a fork, the view query goes to the upstream
\* first; if that fails with "not found" the fork is queried next with the
\* same number, and its success is returned with the fork's owner/repo.
C5_NumberUpstreamThenFork ==
  (NumberMode /\ ForkWithParent) =>
    /\ executedCommands[2] = GhPRView(arg, Upstream)
    /\ (Answered(2) /\ replies[2] \in NotFoundFailures) =>
         /\ Len(executedCommands) = 3
         /\ executedCommands[3] = GhPRView(arg, Current)
         /\ Parsed(3) =>
              /\ pc = "done"
              /\ result.kind = "return"
              /\ result.details # Null
              /\ result.details[1].owner = Current.owner
              /\ result.details[1].repo = Current.name

\* The upstream said "not found" in capitals and the fork had the PR.
C5_Witness ==
  /\ NumberMode
  /\ ForkWithParent
  /\ Parsed(3)
  /\ replies[2] = Fail(Err("Error", <<"GraphQL:", "No", "Pull", "Requests",
                                      "Found">>))
  /\ result.details # Null
  /\ result.details[1].repo = "fork-repo"

\* C6: given a bare number in a fork, an upstream view failure other than
\* "not found" ends the operation with that very error; the fork is never
\* queried and the error is not turned into "not found".
C6_OtherErrorsPropagate ==
  (NumberMode /\ ForkWithParent /\ Answered(2) /\ ~replies[2].ok
     /\ replies[2] \notin NotFoundFailures) =>
    /\ Len(executedCommands) = 2
    /\ pc = "done"
    /\ result = Thrown(replies[2].err[1])

\* The upstream view query was refused for missing authentication.
C6_Witness ==
  /\ NumberMode
  /\ ForkWithParent
  /\ Answered(2)
  /\ replies[2] = Fail(Err("Error", <<"gh", "auth", "failed">>))
  /\ result.error = Some(Err("Error", <<"gh", "auth", "failed">>))

----------------------------------------------------------------------------
(* Owner pinning, "not found" reporting, checkExistingPR *)

\* The listed items that the resolved PR reference was built from.
SourceItems ==
  UNION { {replies[i].out[1][k] : k \in {m \in 1..Len(replies[i].out[1]) :
             replies[i].out[1][m].url = currentBranchPR.pr[1].url}} :
          i \in {j \in ListQueries(currentBranchPR.pr[1].repo) : Parsed(j)} }

\* Every repository of the plan answered its list query, none with a PR of
\* the current branch whose head belongs to the current owner.
OnlyForeignPRs ==
  /\ ContextLoaded
  /\ \A t \in 1..Len(searchTargets) :
       ListedNoMatch(searchTargets[t]) /\ ~ListedMatch(searchTargets[t])

\* C7: branch-based search never returns a PR whose head owner is another
\* account than the current repository's owner, or is missing; if the
\* candidates list only such PRs, the result is "not found".
C7_OwnerPinned ==
  BranchResolution =>
    /\ currentBranchPR.pr # Null =>
         /\ SourceItems # {}
         /\ \A item \in SourceItems : IsOwnBranchPR(item)
    /\ OnlyForeignPRs =>
         /\ pc = "done"
         /\ currentBranchPR.pr = Null
         /\ result.url = Null
         /\ result.details = Null

\* Both repositories of a fork's plan listed PRs of the branch, all of them
\* with a foreign or missing head owner.
C7_Witness ==
  /\ BranchResolution
  /\ ForkWithParent
  /\ OnlyForeignPRs
  /\ Len(replies[3].out[1]) > 0
  /\ Len(replies[4].out[1]) > 0
  /\ replies[4].out[1][1].headRefName = branchName
  /\ currentBranchPR.pr = Null

\* The operation ended because no repository of the plan had the PR.
NoPRFound ==
  /\ pc = "done"
  /\ ContextLoaded
  /\ \/ /\ BranchResolution
        /\ currentBranchPR.searchedRepos # <<>>
        /\ currentBranchPR.pr = Null
     \/ /\ NumberMode
        /\ Len(replies) = 1 + Len(searchTargets)
        /\ replies[Len(replies)] \in NotFoundFailures

ListsPlanInOrder(outcome) ==
  /\ outcome.kind = "throw"
  /\ NamesInOrder(outcome.error[1].message, FullNames(searchTargets))
  /\ ForkWithParent =>
       NamesInOrder(outcome.error[1].message,
                    <<Upstream.fullName, Current.fullName>>)

\* C8: when getPRDetails fails because no PR was found, by number or for
\* the current branch, its message names every repository of the search
\* plan in plan order, the upstream before the fork.
C8_DetailsNotFoundListsRepos ==
  (op = "getPRDetails" /\ NoPRFound) => ListsPlanInOrder(result)

\* By number, in a fork: both repositories said "not found".
C8_Witness ==
  /\ NumberMode
  /\ NoPRFound
  /\ ForkWithParent
  /\ replies[2] \in NotFoundFailures
  /\ result.kind = "throw"

\* C9: every "no PR found" error of an operation that runs the resolution
\* pipeline, openPR included, names every repository searched, in order.
C9_EveryNotFoundListsRepos ==
  (op \in {"openPR", "getPRDetails"} /\ NoPRFound) => ListsPlanInOrder(result)

\* C10: checkExistingPR never raises; it returns the URL of the PR that
\* branch resolution located, null when no candidate has a match, and null
\* when any step of the pipeline fails.
C10_CheckExistingNeverRaises ==
  (op = "checkExistingPR") =>
    /\ result.kind # "throw"
    /\ result.details = Null
    /\ (pc = "done") => result.kind = "return"
    /\ (pc = "done" /\ currentBranchPR.pr # Null) =>
         result.url = Some(currentBranchPR.pr[1].url)
    /\ (pc = "done" /\ currentBranchPR.pr = Null) => result.url = Null
    /\ (\E i \in 1..Len(replies) : ~Parsed(i)) =>
         (pc = "done" /\ result = ReturnUrl(Null))

\* The list query of the second candidate failed and null was returned.
C10_Witness ==
  /\ op = "checkExistingPR"
  /\ pc = "done"
  /\ Len(replies) = 4
  /\ ~replies[4].ok
  /\ result = ReturnUrl(Null)

----------------------------------------------------------------------------
(* Failures during resolution, and where the details come from *)

\* The error a reply carries: the rejection, or JSON.parse's on a bad stdout.
ErrorOf(r) == IF r.ok THEN JsonSyntaxError ELSE r.err[1]

\* A call of the cross-repository loop that said "no such PR here": the one
\* failure the loop of bare-identifier mode is meant to absorb.
AbsorbedNotFound(i) ==
  /\ op = "getPRDetails"
  /\ arg # Null
  /\ parsedPR = Null
  /\ executedCommands[i].cmd = "gh pr view --json"
  /\ replies[i] \in NotFoundFailures

\* C11: when a remote call of the resolution fails, openPR and getPRDetails
\* fail with that underlying error, not with a "no PR found" error, and no
\* list, view or web-open call is issued after the failing call.
C11_LookupFailuresSurface ==
  (op \in {"openPR", "getPRDetails"}) =>
    \A i \in 1..Len(replies) :
      (~Parsed(i) /\ ~AbsorbedNotFound(i)) =>
        /\ i = Len(executedCommands)
        /\ pc = "done"
        /\ result = Thrown(ErrorOf(replies[i]))
        /\ result.error[1] # OpenPRNotFoundError
        /\ result.error[1] # BranchNotFoundError(currentBranchPR)
        /\ result.error[1] # NumberNotFoundError(arg, searchTargets)

\* openPR: the repository-context query was refused for missing credentials.
C11_Witness ==
  /\ op = "openPR"
  /\ pc = "done"
  /\ Len(replies) = 2
  /\ replies[2] = Fail(Err("Error", <<"gh", "auth", "failed">>))
  /\ result = Thrown(Err("Error", <<"gh", "auth", "failed">>))

\* The view query that was answered last, and the repository it named.
LastIsView ==
  /\ executedCommands # <<>>
  /\ executedCommands[Len(executedCommands)].cmd = "gh pr view --json"
  /\ Parsed(Len(executedCommands))

QueriedRepo == executedCommands[Len(executedCommands)].repo

\* C12: in every input mode the owner and repo of the returned PRDetails
\* are those of the repository the successful view query was issued
\* against; they are the working-directory repository's only if that is
\* the repository that was queried.
C12_DetailsFromQueriedRepo ==
  (op = "getPRDetails" /\ result.details # Null) =>
    /\ LastIsView
    /\ QueriedRepo = <<result.details[1].owner, result.details[1].repo>>
    /\ (ContextLoaded /\ QueriedRepo # Current.fullName) =>
         <<result.details[1].owner, result.details[1].repo>>
           # <<Current.owner, Current.name>>

\* By number: the upstream had the PR, the details carry the upstream.
C12_Witness ==
  /\ op = "getPRDetails"
  /\ arg = <<"123">>
  /\ ForkWithParent
  /\ result.details # Null
  /\ Len(executedCommands) = 2
  /\ result.details[1].owner = "org"
  /\ result.details[1].repo = "main-repo"

\* C14: without argument, in a fork whose upstream lists a matching PR,
\* getPRDetails views that PR by number in the upstream, named explicitly,
\* returns the upstream's owner/repo, and never lists the fork's PRs.
C14_NoArgViewsUpstream ==
  (op = "getPRDetails" /\ arg = Null /\ ForkWithParent
     /\ ListedMatch(Upstream)) =>
    /\ Len(executedCommands) = 4
    /\ executedCommands[4] =
         Cmd("gh pr view --json", Upstream.fullName,
             currentBranchPR.pr[1].number)
    /\ \E k \in OwnBranchPRs(3) :
         currentBranchPR.pr[1].number = <<ToString(replies[3].out[1][k].number)>>
    /\ \A i \in 1..Len(executedCommands) :
         executedCommands[i].cmd = "gh pr list --head"
           => executedCommands[i].repo = Upstream.fullName
    /\ Parsed(4) =>
         /\ result.details # Null
         /\ result.details[1].owner = Upstream.owner
         /\ result.details[1].repo = Upstream.name

\* The listed upstream PR was viewed and returned with the upstream's name.
C14_Witness ==
  /\ op = "getPRDetails"
  /\ arg = Null
  /\ ForkWithParent
  /\ ListedMatch(Upstream)
  /\ Parsed(4)
  /\ result.details # Null
  /\ result.details[1].repo = "main-repo"
  /\ Current.name = "fork-repo"

\* C19: an identifier that starts with "http" but is not a well-formed PR
\* URL makes getPRDetails fail with the invalid-format error before any
\* remote call is issued.
C19_MalformedUrlRejectedFirst ==
  (op = "getPRDetails" /\ arg # Null /\ startsWithHttp(arg)
     /\ ~WellFormedPRUrl(arg)) =>
    /\ pc = "done"
    /\ result = Thrown(InvalidUrlError)
    /\ executedCommands = <<>>

----------------------------------------------------------------------------
(* One call at a time; what a failed call does to each operation *)

\* The operations of the provider facade.
FacadeOps ==
  {"checkExistingPR", "openPR", "getPRDetails", "checkCLI",
   "getDefaultBranch", "listPRs", "createPR", "postComment",
   "updateDescription"}

\* The calls that were started and have not settled yet.
Outstanding == Len(executedCommands) - Len(replies)

\* C15: within one facade operation at most one remote call is outstanding
\* at any time, so a call is started only after the previous one settled;
\* a suspended operation waits for exactly one call, a settled one for none.
C15_OneCallAtATime ==
  (op \in FacadeOps) =>
    /\ Outstanding \in {0, 1}
    /\ (pc = "done") => Outstanding = 0
    /\ (pc # "done") => Outstanding = 1

\* openPR waits for its url query, the web-open call and four lookups
\* having settled one after the other.
C15_Witness ==
  /\ op = "openPR"
  /\ pc = "urlview"
  /\ Len(replies) = 5
  /\ Outstanding = 1
  /\ executedCommands[5].cmd = "gh pr view --web"

\* Reply i is a failed call: the command was rejected.
FailedCall(i) == ~replies[i].ok

\* The operation ended with call i and issued nothing after it.
EndedAt(i) == i = Len(executedCommands) /\ pc = "done"

\* The statement of C16 as written: when any remote call of a facade
\* operation fails, the operation fails at once, with no further call and
\* no fallback value.
C16_FailFastEverywhere ==
  (op \in FacadeOps) =>
    \A i \in 1..Len(replies) :
      FailedCall(i) =>
        /\ EndedAt(i)
        /\ result.kind \in {"throw", "exit"}

\* What the operation does after failed call i, operation by operation.
AfterFailure(i) ==
  CASE op \in {"openPR", "createPR", "postComment", "updateDescription"} ->
         EndedAt(i) /\ result = Thrown(replies[i].err[1])
    [] op = "getPRDetails" ->
         IF AbsorbedNotFound(i)
         THEN \/ /\ EndedAt(i)
                 /\ i = Len(searchTargets) + 1
                 /\ result = Thrown(NumberNotFoundError(arg, searchTargets))
              \/ /\ i < Len(executedCommands)
                 /\ i < Len(searchTargets) + 1
                 /\ executedCommands[i + 1] = GhPRView(arg, searchTargets[i])
         ELSE EndedAt(i) /\ result = Thrown(replies[i].err[1])
    [] op = "checkExistingPR" -> EndedAt(i) /\ result = ReturnUrl(Null)
    [] op = "getDefaultBranch" -> EndedAt(i) /\ result = ReturnBranch("main")
    [] op = "listPRs" -> EndedAt(i) /\ result = ReturnPRs(<<>>)
    [] op = "checkCLI" ->
         IF executedCommands[i] = GhAuthStatus
         THEN /\ i < Len(executedCommands)
              /\ executedCommands[i + 1] = GhApiUser
              /\ Len(executedCommands) = i + 1
         ELSE EndedAt(i) /\ result = Exit(1)

\* C16 (amended): no facade operation issues a failed call again.  After a
\* failed call openPR, createPR, postComment, updateDescription and
\* getPRDetails fail at once with that call's error, except that in
\* bare-number mode a "not found" from a view query moves getPRDetails on
\* to the next repository of the plan (or to its own not-found error after
\* the last); checkExistingPR, getDefaultBranch and listPRs issue no
\* further call and return null, 'main' and [] respectively; checkCLI
\* exits the process, except that a failed `gh auth status` is followed by
\* the single probe `gh api user`.
C16_NoRetryAndFallbacks ==
  (op \in FacadeOps) =>
    \A i \in 1..Len(replies) :
      FailedCall(i) =>
        /\ \A j \in (i + 1)..Len(executedCommands) :
             executedCommands[j] # executedCommands[i]
        /\ AfterFailure(i)

\* checkCLI: `gh auth status` failed, `gh api user` was tried once and
\* answered, and checkCLI returned.
C16_Witness ==
  /\ op = "checkCLI"
  /\ pc = "done"
  /\ Len(replies) = 3
  /\ FailedCall(2)
  /\ executedCommands[3] = GhApiUser
  /\ result = ReturnVoid

----------------------------------------------------------------------------
(* The operations that change the pull request *)

BodyFileOps == {"postComment", "updateDescription"}

MutationCommands ==
  {"gh pr create --web", "gh pr comment --body-file",
   "gh pr edit --body-file"}

\* C18: every command that changes remote state names its target
\* repository explicitly.
C18_MutationsNameRepository ==
  \A i \in 1..Len(executedCommands) :
    executedCommands[i].cmd \in MutationCommands =>
      executedCommands[i].repo # <<>>

----------------------------------------------------------------------------
(* git ai-commit with nothing staged *)

\* Reply i reports trouble of the environment: a rejected call or closed
\* prompt, AI output without usable suggestions, or git outside a
\* repository.
Trouble(i) ==
  \/ ~replies[i].ok
  \/ /\ executedCommands[i].cmd = "executeAIWithOutput"
     /\ ~(replies[i].out[1].success /\ replies[i].out[1].values # <<>>)
  \/ /\ executedCommands[i].cmd = "git diff --cached --quiet"
     /\ replies[i].out[1] = 128

\* The AI flow was started in a directory with changes, none staged, and
\* no commit has been made.
NothingStaged ==
  /\ op = "aiCommit"
  /\ jiraOption = Null
  /\ worktree = [staged |-> FALSE, unstaged |-> TRUE]
  /\ commits = <<>>

\* C20: run with nothing staged, git ai-commit does not fail for lack of
\* staged changes; unless the environment fails it, it ends only after
\* having staged the changes and created the commit.
C20_StagesWhenNothingStaged ==
  NothingStaged =>
    /\ result.error # Some(NoStagedError)
    /\ (pc = "done") => \E i \in 1..Len(replies) : Trouble(i)

----------------------------------------------------------------------------
(* git ai-commit --jira *)

CommandNames == [i \in 1..Len(executedCommands) |-> executedCommands[i].cmd]

IsPrefix(s, t) == Len(s) <= Len(t) /\ s = SubSeq(t, 1, Len(s))

\* What main awaits before either flow, and what the JIRA flow awaits,
\* with the ticket taken from the branch and with the ticket given.
Preamble == <<"checkAndUpgrade", "checkGitCLI", "select commit type">>

JiraFromBranch ==
  Preamble \o <<"loadConfig", "getCurrentBranch", "getJiraTicketDetails",
                "git diff --cached --quiet", "git commit -m">>

JiraFromTicket ==
  Preamble \o <<"loadConfig", "getJiraTicketDetails",
                "git diff --cached --quiet", "git commit -m">>

\* C21: with --jira, git ai-commit never invokes the AI generator and never
\* reads the diff: once the commit type is selected it resolves the JIRA
\* context, builds the message from it and goes to commit creation, or
\* fails when the ticket cannot be resolved; and in either flow nothing is
\* awaited beyond the preamble before the commit type has been selected.
C21_JiraSkipsAI ==
  (op = "aiCommit") =>
    /\ IsPrefix(CommandNames, Preamble) \/ IsPrefix(Preamble, CommandNames)
    /\ (Len(executedCommands) > 3) =>
         (Parsed(3) /\ commitType = replies[3].out)
    /\ (jiraOption # Null) =>
         /\ IsPrefix(CommandNames,
                     IF jiraOption[1].ticket = Null THEN JiraFromBranch
                     ELSE JiraFromTicket)
         /\ (commitMessage # Null) =>
              /\ jiraContext # Null
              /\ IsPrefix(<<commitType[1], ":", "[", jiraContext[1].key, "]">>,
                          commitMessage[1])
         /\ (commits # <<>>) => commits = <<commitMessage[1]>>
         /\ (pc = "done" /\ jiraContext = Null) =>
              /\ result.kind = "exit"
              /\ \A i \in 1..Len(executedCommands) :
                   executedCommands[i].cmd
                     \notin {"git diff --cached --quiet", "git commit -m"}

\* --jira without a value on a branch that names PROJ-123: the commit was
\* created with the message built from the ticket.
C21_Witness ==
  /\ op = "aiCommit"
  /\ jiraOption = Some([ticket |-> Null])
  /\ pc = "done"
  /\ result = ReturnVoid
  /\ CommandNames = JiraFromBranch
  /\ Len(commits) = 1
  /\ jiraContext[1].key = "PROJ-123"

----------------------------------------------------------------------------
(* The loops over the search plan *)

\* getPRDetails was given an identifier that is not a URL.
BareIdentifier ==
  op = "getPRDetails" /\ arg # Null /\ ~startsWithHttp(arg)

\* Reply i is a rejection whose message says "no pull requests found".
SaidNotFound(i) ==
  /\ Answered(i)
  /\ ~replies[i].ok
  /\ isNotFound(replies[i].err[1].message)

\* C22: with a bare identifier, getPRDetails raises its own "no pull
\* request found" error only after every repository of the search plan was
\* queried exactly once, in plan order, and each query said "not found";
\* a "not found" from a repository that is not the last is followed by the
\* query of the next one.
C22_NotFoundOnlyAfterWholePlan ==
  BareIdentifier =>
    /\ (result = Thrown(NumberNotFoundError(arg, searchTargets))) =>
         /\ ContextLoaded
         /\ Len(executedCommands) = Len(searchTargets) + 1
         /\ \A k \in 1..Len(searchTargets) :
              /\ executedCommands[k + 1] = GhPRView(arg, searchTargets[k])
              /\ SaidNotFound(k + 1)
    /\ \A i \in 2..Len(replies) :
         (SaidNotFound(i) /\ i - 1 < Len(searchTargets)) =>
           /\ Len(executedCommands) > i
           /\ executedCommands[i + 1] = GhPRView(arg, searchTargets[i])
           /\ result # Thrown(NumberNotFoundError(arg, searchTargets))
                \/ Len(replies) > i

\* Upstream and fork both said "not found", and only then the error.
C22_Witness ==
  /\ BareIdentifier
  /\ Len(searchTargets) = 2
  /\ pc = "done"
  /\ SaidNotFound(2)
  /\ SaidNotFound(3)
  /\ result = Thrown(NumberNotFoundError(arg, searchTargets))

\* Positions of the list-by-branch queries that were rejected.
FailedListQueries ==
  {i \in 1..Len(replies) :
     executedCommands[i].cmd = "gh pr list --head" /\ ~replies[i].ok}

\* C23: in branch resolution a rejected list-by-branch query ends the
\* search at once: no later repository is queried, no result is produced,
\* and openPR and getPRDetails without argument fail with that very error,
\* not with a "not found" of their own.
C23_ListFailureAborts ==
  BranchResolution =>
    \A i \in FailedListQueries :
      /\ i = Len(executedCommands)
      /\ pc = "done"
      /\ currentBranchPR = NoResult
      /\ (op # "checkExistingPR") =>
           /\ result = Thrown(replies[i].err[1])
           /\ result # Thrown(OpenPRNotFoundError)
           /\ result # Thrown(BranchNotFoundError(
                               FindOpenPRResult(Null, branchName,
                                                searchTargets)))

\* The upstream's list query was rejected, with a message that even says
\* "no pull requests found": openPR failed with it, the fork was not asked.
C23_Witness ==
  /\ op = "openPR"
  /\ ForkWithParent
  /\ FailedListQueries = {3}
  /\ executedCommands[3].repo = Upstream.fullName
  /\ SaidNotFound(3)
  /\ pc = "done"
  /\ result = Thrown(replies[3].err[1])

----------------------------------------------------------------------------
(* openPR's side effect; the shapes of the parent *)

WebOpens ==
  {i \in 1..Len(executedCommands) :
     executedCommands[i].cmd = "gh pr view --web"}

\* C24: openPR opens the browser at most once, only after branch
\* resolution has returned a PR and for that PR's url as the list query
\* gave it; when resolution found nothing or failed it never does; and its
\* url query follows a web-open call that has succeeded.
C24_WebOpenAfterResolution ==
  (op = "openPR") =>
    /\ Cardinality(WebOpens) <= 1
    /\ \A i \in WebOpens :
         /\ currentBranchPR.pr # Null
         /\ executedCommands[i] = GhPRViewWeb(currentBranchPR.pr[1].url)
         /\ currentBranchPR.pr[1].url
              \in MatchUrls(currentBranchPR.pr[1].repo)
         /\ executedCommands[i - 1].cmd = "gh pr list --head"
         /\ \A j \in 1..(i - 1) : Parsed(j)
    /\ (currentBranchPR.pr = Null) => WebOpens = {}
    /\ \A j \in 1..Len(executedCommands) :
         executedCommands[j].cmd = "gh pr view --json url" =>
           /\ j - 1 \in WebOpens
           /\ replies[j - 1].ok
           /\ executedCommands[j].arg = executedCommands[j - 1].arg

\* The fork's list gave the PR after the upstream's had none; the browser
\* was opened for it and the url query answered.
C24_Witness ==
  /\ op = "openPR"
  /\ pc = "done"
  /\ result = ReturnVoid
  /\ ForkWithParent
  /\ WebOpens = {5}
  /\ currentBranchPR.pr[1].repo = Current
  /\ executedCommands[6].cmd = "gh pr view --json url"

\* The payload of the repository query, once it was parsed.
RepoData == replies[Len(replies)].out[1]

RepoDataLoaded ==
  /\ replies # <<>>
  /\ executedCommands[Len(replies)] = GhRepoView
  /\ Parsed(Len(replies))

\* The parent is given as a combined "owner/name" string.
CombinedShape(p) ==
  /\ p.nameWithOwner # Null
  /\ Len(p.nameWithOwner[1]) = 2
  /\ p.nameWithOwner[1][1] # ""
  /\ p.nameWithOwner[1][2] # ""

\* The parent is given as separate owner and name fields.
SeparateShape(p) == TruthyStr(p.login) /\ TruthyStr(p.name)

\* C25: a parent identified by the combined string and a parent identified
\* by the separate fields give the same reference, and a payload that
\* identifies the parent in either shape gives a non-null parent.
C25_BothParentShapes ==
  (RepoDataLoaded /\ RepoData.parent # Null) =>
    LET p == RepoData.parent[1]
    IN /\ CombinedShape(p) =>
            repoContext.parent =
              Some(RepoRef(p.nameWithOwner[1][1], p.nameWithOwner[1][2],
                           p.nameWithOwner[1]))
       /\ SeparateShape(p) =>
            /\ repoContext.parent # Null
            /\ ~CombinedShape(p) =>
                 repoContext.parent =
                   Some(RepoRef(p.login[1], p.name[1],
                                <<p.login[1], p.name[1]>>))

----------------------------------------------------------------------------
(* Bare identifiers *)

\* C26: a non-URL identifier that is not a number makes getPRDetails fail
\* before any remote call is issued.
C26_NonNumericRejectedFirst ==
  (BareIdentifier /\ arg[1] \notin Digits) =>
    /\ pc = "done"
    /\ result.kind = "throw"
    /\ executedCommands = <<>>

\* C27: by number in a fork, once the upstream's view query succeeded
\* getPRDetails returns the upstream's PR and no query ever names the fork.
C27_UpstreamNumberWins ==
  (NumberMode /\ ForkWithParent /\ Parsed(2)) =>
    /\ executedCommands = <<GhRepoView, GhPRView(arg, Upstream)>>
    /\ pc = "done"
    /\ result.details # Null
    /\ result.details[1].owner = Upstream.owner
    /\ result.details[1].repo = Upstream.name
    /\ result.details[1].url = replies[2].out[1].url
    /\ \A i \in 1..Len(executedCommands) :
         executedCommands[i].repo # Current.fullName

\* PR 123 was found upstream at once.
C27_Witness ==
  /\ NumberMode
  /\ ForkWithParent
  /\ Parsed(2)
  /\ Len(searchTargets) = 2
  /\ result.details # Null
  /\ result.details[1].url = PRUrl(Upstream, 42)

----------------------------------------------------------------------------
(* Read-only operations; the result of branch resolution *)

ReadOnlyOps == {"checkExistingPR", "getPRDetails"}

QueryCommands ==
  {"git rev-parse --abbrev-ref HEAD", "gh repo view --json",
   "gh pr list --head", "gh pr view --json"}

\* C29: checkExistingPR and getPRDetails issue only query calls (current
\* branch, repository view, PR list, PR view) and no step of theirs creates
\* or deletes a local file.
C29_ReadOnlyResolution ==
  /\ [](op \in ReadOnlyOps =>
          \A i \in 1..Len(executedCommands) :
            executedCommands[i].cmd \in QueryCommands)
  /\ [][op' \in ReadOnlyOps => files' = files]_vars

\* getPRDetails without argument ran all four kinds of query.
C29_Witness ==
  /\ op = "getPRDetails"
  /\ arg = Null
  /\ pc = "done"
  /\ result.details # Null
  /\ {executedCommands[i].cmd : i \in 1..Len(executedCommands)}
       = QueryCommands
  /\ files = {}

\* findOpenPRForCurrentBranch has returned.
HasResolved == currentBranchPR # NoResult

\* C30: the result of findOpenPRForCurrentBranch names every repository of
\* the search plan, in plan order, with or without a match; a match carries
\* the repository of the plan whose list query, the last one issued,
\* returned it.
C30_ResultCarriesPlan ==
  (BranchResolution /\ HasResolved) =>
    /\ ContextLoaded
    /\ currentBranchPR.searchedRepos = FullNames(searchTargets)
    /\ currentBranchPR.branchName = branchName
    /\ (currentBranchPR.pr # Null) =>
         LET pr == currentBranchPR.pr[1]
             last == CHOOSE i \in 1..Len(executedCommands) :
                       /\ executedCommands[i].cmd = "gh pr list --head"
                       /\ \A j \in (i + 1)..Len(executedCommands) :
                            executedCommands[j].cmd # "gh pr list --head"
         IN /\ \E k \in 1..Len(searchTargets) : pr.repo = searchTargets[k]
            /\ executedCommands[last].repo = pr.repo.fullName
            /\ Parsed(last)
            /\ \E k \in OwnBranchPRs(last) :
                 /\ pr.url = replies[last].out[1][k].url
                 /\ pr.number = <<ToString(replies[last].out[1][k].number)>>
    /\ (currentBranchPR.pr = Null) =>
         \A k \in 1..Len(searchTargets) : ListedNoMatch(searchTargets[k])

\* The upstream's list had the PR: the result still names upstream and
\* fork, and the PR carries the upstream.
C30_Witness ==
  /\ op = "checkExistingPR"
  /\ HasResolved
  /\ ForkWithParent
  /\ currentBranchPR.pr # Null
  /\ currentBranchPR.pr[1].repo = Upstream
  /\ Len(currentBranchPR.searchedRepos) = 2
  /\ Len(executedCommands) = 3

----------------------------------------------------------------------------
(* getCurrentBranchPR *)

\* Positions of the current-branch query: one per run of branch resolution.
BranchQueries ==
  {i \in 1..Len(executedCommands) : executedCommands[i] = GitCurrentBranch}

\* getPRDetails was called, and where its run starts in the log.
SecondRun == Cardinality(BranchQueries) = 2

start2 == CHOOSE i \in BranchQueries : i > 1

ViewQueries ==
  {i \in 1..Len(executedCommands) :
     executedCommands[i].cmd = "gh pr view --json"}

\* The list at position i holds an open PR of the branch it was asked
\* for, headed by the owner the first repository query reported.
ListHasOwnPR(i) ==
  /\ executedCommands[i].cmd = "gh pr list --head"
  /\ Parsed(i)
  /\ \E k \in 1..Len(replies[i].out[1]) :
       /\ replies[i].out[1][k].headRefName = executedCommands[i].arg
       /\ replies[i].out[1][k].headRepositoryOwner # Null
       /\ SameAccount(replies[i].out[1][k].headRepositoryOwner[1],
                      replies[2].out[1].login)

\* C28: getCurrentBranchPR never raises.  Without a PR from the existence
\* check it returns null and issues no view query; it calls getPRDetails
\* only after the check gave a url, returns null when that call fails or
\* finds nothing, and returns details only when the check and a second
\* run of branch resolution and the view query all succeeded.
C28_CurrentBranchPRNeverRaises ==
  (op = "getCurrentBranchPR") =>
    /\ Cardinality(BranchQueries) \in {1, 2}
    /\ (pc = "done") =>
         /\ result.kind = "return"
         /\ result = ReturnNull \/ result.details # Null
    /\ ~SecondRun =>
         /\ ViewQueries = {}
         /\ (pc = "done") => result = ReturnNull
    /\ SecondRun =>
         /\ \A i \in 1..(start2 - 1) : Parsed(i)
         /\ ListHasOwnPR(start2 - 1)
         /\ (pc = "done" /\ result = ReturnNull) =>
              \/ ~Parsed(Len(replies))
              \/ /\ executedCommands[Len(replies)].cmd = "gh pr list --head"
                 /\ ~ListHasOwnPR(Len(replies))
    /\ (result.details # Null) =>
         /\ SecondRun
         /\ \A i \in 1..Len(replies) : Parsed(i)
         /\ executedCommands[start2 + 1] = GhRepoView
         /\ \E i \in (start2 + 2)..Len(executedCommands) : ListHasOwnPR(i)
         /\ ViewQueries = {Len(executedCommands)}
         /\ executedCommands[Len(executedCommands)].repo =
              <<result.details[1].owner, result.details[1].repo>>

\* The existence check found the PR, then the view query of getPRDetails
\* was rejected: null, not the error.
C28_Witness ==
  /\ op = "getCurrentBranchPR"
  /\ pc = "done"
  /\ SecondRun
  /\ ViewQueries = {Len(executedCommands)}
  /\ FailedCall(Len(replies))
  /\ result = ReturnNull

====
